---- MODULE Spec2Model ----
(***************************************************************************)
(* State-machine model of the SEMrush keyword analyzer (src/src/App.tsx)   *)
(* and of the cohort rules editor (src/src/components/                     *)
(* CohortRulesEditor.tsx).                                                 *)
(*                                                                         *)
(* Numbers.  JavaScript numbers are modelled as exact decimal fixed-point  *)
(* integers; IEEE-754 rounding is not modelled.  The units are:            *)
(*   bucketCtr[b]                       1e-2 percent  (18.4 % = 1840)      *)
(*   upliftCtr, probMatrix.*, p1120     1 percent                          *)
(*   calculateBucketCTR                 1e-4 percent                       *)
(*   expectedCtr                        1e-6 percent                       *)
(*   currentTraffic (KeywordData)       1 click                            *)
(*   every traffic and gain field of a ProcessedKeyword, and the totals    *)
(*   of summary                         1e-8 click                         *)
(*   cohort weights a, b, c, leftover   1e-2                               *)
(* In these units every product and quotient of the source is exact.       *)
(*                                                                         *)
(* Text.  A string is a sequence of one-character strings, so that         *)
(* parseInt, parseFloat, length and substring act on the characters.       *)
(***************************************************************************)
EXTENDS Integers, Sequences, FiniteSets, TLC

(***************************************************************************)
(* Text and JavaScript number parsing                                      *)
(***************************************************************************)
Digits == <<"0", "1", "2", "3", "4", "5", "6", "7", "8", "9">>

IsDigit(c) == \E i \in 1..Len(Digits) : Digits[i] = c

DigitVal(c) == (CHOOSE i \in 1..Len(Digits) : Digits[i] = c) - 1

RECURSIVE Pow10(_)
Pow10(n) == IF n = 0 THEN 1 ELSE 10 * Pow10(n - 1)

RECURSIVE TrimLeft(_)
TrimLeft(t) == IF t # <<>> /\ Head(t) = " " THEN TrimLeft(Tail(t)) ELSE t

\* The longest prefix of t made of decimal digits.
RECURSIVE DigitRun(_)
DigitRun(t) ==
  IF t # <<>> /\ IsDigit(Head(t)) THEN <<Head(t)>> \o DigitRun(Tail(t)) ELSE <<>>

RECURSIVE DigitsValue(_, _)
DigitsValue(ds, acc) ==
  IF ds = <<>> THEN acc ELSE DigitsValue(Tail(ds), 10 * acc + DigitVal(Head(ds)))

\* A JavaScript number: NaN, or mant * 10^(-exp).
NaN == [nan |-> TRUE, mant |-> 0, exp |-> 0]

Num(m, e) == [nan |-> FALSE, mant |-> m, exp |-> e]

\* Truthiness of a number: NaN and 0 are falsy.
Truthy(n) == ~n.nan /\ n.mant # 0

\* The value of a number in units of 10^(-d); the texts the model draws have
\* at most d decimals where a number is stored with d decimals.
Fixed(n, d) == IF n.exp <= d THEN n.mant * Pow10(d - n.exp)
               ELSE n.mant \div Pow10(n.exp - d)

\* The sign and the unsigned remainder of a trimmed numeric text.
SignOf(t) == IF t # <<>> /\ Head(t) = "-" THEN -1 ELSE 1

Unsigned(t) == IF t # <<>> /\ Head(t) \in {"-", "+"} THEN Tail(t) ELSE t

\* parseInt(text), radix 10: leading blanks, a sign, then the digit prefix.
parseInt(text) ==
  LET t  == TrimLeft(text)
      ds == DigitRun(Unsigned(t))
  IN  IF ds = <<>> THEN NaN ELSE Num(SignOf(t) * DigitsValue(ds, 0), 0)

\* parseFloat(text): leading blanks, a sign, digits, and a "." with digits.
\* Exponent notation and "Infinity" are not among the texts the model draws.
parseFloat(text) ==
  LET t    == TrimLeft(text)
      body == Unsigned(t)
      ip   == DigitRun(body)
      rest == SubSeq(body, Len(ip) + 1, Len(body))
      fp   == IF rest # <<>> /\ Head(rest) = "." THEN DigitRun(Tail(rest)) ELSE <<>>
  IN  IF ip = <<>> /\ fp = <<>> THEN NaN
      ELSE Num(SignOf(t) * DigitsValue(ip \o fp, 0), Len(fp))

\* a || b on strings: the empty string is falsy.
OrText(a, b) == IF a # <<>> THEN a ELSE b

\* Math.round of a value in units of 1/unit: floor(x + 0.5).
MathRound(x, unit) == (x + unit \div 2) \div unit

\* Math.max(a, b)
MathMax(a, b) == IF a >= b THEN a ELSE b

\* 1 click and 0.01 click in the unit of the traffic fields (1e-8 click).
ClickUnit == Pow10(8)

CentiClick == Pow10(6)

(***************************************************************************)
(* Data                                                                    *)
(***************************************************************************)
Bucket == {"B13", "B46", "B710", "B1120", "B21P"}

\* (28.5+15.7+11.0)/3 = 18.4, (8.0+6.1+4.8)/3 = 6.3, (3.8+3.0+2.5+2.1)/4 = 2.85,
\* (1.8+1.5+1.3+1.1+1.0+0.9+0.8+0.7+0.6+0.5)/10 = 1.02, 0.1; in 1e-2 percent.
DEFAULT_BUCKET_CTR ==
  [B13 |-> 1840, B46 |-> 630, B710 |-> 285, B1120 |-> 102, B21P |-> 10]

DefaultProbMatrix == [p13 |-> 5, p46 |-> 15, p710 |-> 30, pstay |-> 20]

DefaultUpliftCtr == 0

DefaultMinSearchVolume == 10

DefaultMaxPosition == 50

DefaultInputValues ==
  [minSearchVolume |-> <<"1", "0">>, maxPosition |-> <<"5", "0">>, upliftCtr |-> <<"0">>]

\* An optional number (currentTraffic?: number): <<>> is undefined.
Undefined == <<>>

Some(v) == <<v>>

(***************************************************************************)
(* handleFileUpload: from the rows of the first sheet to KeywordData       *)
(***************************************************************************)
\* A row of jsonData, after the lookup of the column aliases: each field is
\* the first truthy cell among the aliases of the column, as text, or the
\* empty text when no alias has a truthy cell.
\*   [Keyword, Position, SearchVolume, Traffic]

\* The object the map callback returns for a row.
parseRow(row) ==
  LET position       == parseInt(OrText(row.Position, <<"0">>))
      searchVolume   == parseInt(OrText(row.SearchVolume, <<"0">>))
      currentTraffic == parseFloat(OrText(row.Traffic, <<"0">>))
  IN  [keyword        |-> OrText(row.Keyword, <<>>),
       position       |-> IF position.nan THEN 0 ELSE position.mant,
       searchVolume   |-> IF searchVolume.nan THEN 0 ELSE searchVolume.mant,
       currentTraffic |-> IF Truthy(currentTraffic)
                          THEN Some(Fixed(currentTraffic, 0)) ELSE Undefined]

\* Variant: a position of 0 passes the filter.
keepParsedFromZero(k) == k.keyword # <<>> /\ k.position >= 0 /\ k.searchVolume > 0

\* The filter callback: k.keyword && k.position > 0 && k.searchVolume > 0.
keepParsed(k) == k.keyword # <<>> /\ k.position > 0 /\ k.searchVolume > 0

parsedKeywords(jsonRows) ==
  SelectSeq([i \in 1..Len(jsonRows) |-> parseRow(jsonRows[i])], keepParsed)

(***************************************************************************)
(* The projection pipeline                                                 *)
(***************************************************************************)
\* Variant: the first boundary off by one (position < 3).
positionToBucketShifted(position) ==
  IF position < 3 THEN "B13"
  ELSE IF position <= 6 THEN "B46"
  ELSE IF position <= 10 THEN "B710"
  ELSE IF position <= 20 THEN "B1120"
  ELSE "B21P"

positionToBucket(position) ==
  IF position <= 3 THEN "B13"
  ELSE IF position <= 6 THEN "B46"
  ELSE IF position <= 10 THEN "B710"
  ELSE IF position <= 20 THEN "B1120"
  ELSE "B21P"

\* Variant: the uplift is not applied.
calculateBucketCTRNoUplift(bucket, bCtr, uplift) == bCtr[bucket] * 100

\* bucketCtr[bucket] * (1 + upliftCtr / 100), in 1e-4 percent.
calculateBucketCTR(bucket, bCtr, uplift) == bCtr[bucket] * (100 + uplift)

\* Variant: the derived mass is not floored at 0.
derivedP1120Unclamped(pm) == 100 - pm.p13 - pm.p46 - pm.p710 - pm.pstay

\* Math.max(0, 100 - p13 - p46 - p710 - pstay), in percent.
derivedP1120(pm) == MathMax(0, 100 - pm.p13 - pm.p46 - pm.p710 - pm.pstay)

\* keyword.searchVolume * ctr / 100 for a ctr in 1e-4 percent, in 1e-6 click.
modelledTraffic(searchVolume, ctr) == searchVolume * ctr

\* keyword.currentTraffic || keyword.searchVolume * currentCtr / 100,
\* in 1e-6 click: undefined and 0 are falsy.
estimatedCurrentTraffic(keyword, currentCtr) ==
  IF keyword.currentTraffic # Undefined /\ keyword.currentTraffic[1] # 0
  THEN keyword.currentTraffic[1] * Pow10(6)
  ELSE modelledTraffic(keyword.searchVolume, currentCtr)

\* Variant: the stay mass is given the CTR of B1120, not of the current bucket.
expectedCtrFixedStay(pm, p1120, bCtr, uplift, currentCtr) ==
    pm.p13 * calculateBucketCTR("B13", bCtr, uplift)
  + pm.p46 * calculateBucketCTR("B46", bCtr, uplift)
  + pm.p710 * calculateBucketCTR("B710", bCtr, uplift)
  + p1120 * calculateBucketCTR("B1120", bCtr, uplift)
  + pm.pstay * calculateBucketCTR("B1120", bCtr, uplift)

\* Variant: the stay term is left out of the blend.
expectedCtrNoStay(pm, p1120, bCtr, uplift, currentCtr) ==
    pm.p13 * calculateBucketCTR("B13", bCtr, uplift)
  + pm.p46 * calculateBucketCTR("B46", bCtr, uplift)
  + pm.p710 * calculateBucketCTR("B710", bCtr, uplift)
  + p1120 * calculateBucketCTR("B1120", bCtr, uplift)

\* The blended CTR, in 1e-6 percent.
expectedCtr(pm, p1120, bCtr, uplift, currentCtr) ==
    pm.p13 * calculateBucketCTR("B13", bCtr, uplift)
  + pm.p46 * calculateBucketCTR("B46", bCtr, uplift)
  + pm.p710 * calculateBucketCTR("B710", bCtr, uplift)
  + p1120 * calculateBucketCTR("B1120", bCtr, uplift)
  + pm.pstay * currentCtr

\* Variant: a gain is clamped at 0.
gainOverClamped(traffic, estimated) == MathMax(0, traffic - estimated)

\* A gain field: traffic - estimatedCurrentTraffic, signed.
gainOver(traffic, estimated) == traffic - estimated

\* The map callback of processedKeywords; every computed field in 1e-8 click.
processKeyword(keyword, bCtr, uplift, pm, p1120) ==
  LET currentBucket == positionToBucket(keyword.position)
      currentCtr    == calculateBucketCTR(currentBucket, bCtr, uplift)
      estimated     == 100 * estimatedCurrentTraffic(keyword, currentCtr)
      trafficB13    == 100 * modelledTraffic(keyword.searchVolume, calculateBucketCTR("B13", bCtr, uplift))
      trafficB46    == 100 * modelledTraffic(keyword.searchVolume, calculateBucketCTR("B46", bCtr, uplift))
      trafficB710   == 100 * modelledTraffic(keyword.searchVolume, calculateBucketCTR("B710", bCtr, uplift))
      trafficB1120  == 100 * modelledTraffic(keyword.searchVolume, calculateBucketCTR("B1120", bCtr, uplift))
      expected      == keyword.searchVolume * expectedCtr(pm, p1120, bCtr, uplift, currentCtr)
  IN  [keyword                 |-> keyword.keyword,
       position                |-> keyword.position,
       searchVolume            |-> keyword.searchVolume,
       currentTraffic          |-> keyword.currentTraffic,
       estimatedCurrentTraffic |-> estimated,
       trafficB13              |-> trafficB13,
       trafficB46              |-> trafficB46,
       trafficB710             |-> trafficB710,
       trafficB1120            |-> trafficB1120,
       gainB13                 |-> gainOver(trafficB13, estimated),
       gainB46                 |-> gainOver(trafficB46, estimated),
       gainB710                |-> gainOver(trafficB710, estimated),
       gainB1120               |-> gainOver(trafficB1120, estimated),
       expectedTraffic         |-> expected,
       gainExpected            |-> gainOver(expected, estimated)]

\* Variant: the volume threshold is strict.
passesThresholdsStrict(k, minSV, maxPos) == k.searchVolume > minSV /\ k.position <= maxPos

\* The filter callback of processedKeywords.
passesThresholds(k, minSV, maxPos) == k.searchVolume >= minSV /\ k.position <= maxPos

\* The body of the processedKeywords memo.
computeProcessedKeywords(kws, minSV, maxPos, bCtr, uplift, pm) ==
  LET p1120   == derivedP1120(pm)
      keep(k) == passesThresholds(k, minSV, maxPos)
      kept    == SelectSeq(kws, keep)
  IN  [i \in 1..Len(kept) |-> processKeyword(kept[i], bCtr, uplift, pm, p1120)]

(***************************************************************************)
(* summary                                                                 *)
(***************************************************************************)
TopN == 10

MaxKeywordChars == 25

RECURSIVE sumCurrent(_)
sumCurrent(pks) ==
  IF pks = <<>> THEN 0 ELSE Head(pks).estimatedCurrentTraffic + sumCurrent(Tail(pks))

\* Variant: the second reduce adds k.estimatedCurrentTraffic again.
RECURSIVE sumExpectedOfCurrent(_)
sumExpectedOfCurrent(pks) ==
  IF pks = <<>> THEN 0
  ELSE Head(pks).estimatedCurrentTraffic + sumExpectedOfCurrent(Tail(pks))

RECURSIVE sumExpected(_)
sumExpected(pks) ==
  IF pks = <<>> THEN 0 ELSE Head(pks).expectedTraffic + sumExpected(Tail(pks))

posRange(position) ==
  IF position <= 3 THEN "1-3"
  ELSE IF position <= 10 THEN "4-10"
  ELSE IF position <= 20 THEN "11-20"
  ELSE IF position <= 50 THEN "21-50"
  ELSE "50+"

\* The keys of positionDistribution, in insertion order.
RECURSIVE rangesSeen(_, _)
rangesSeen(pks, acc) ==
  IF pks = <<>> THEN acc
  ELSE LET r == posRange(Head(pks).position)
       IN  rangesSeen(Tail(pks),
                      IF \E i \in 1..Len(acc) : acc[i] = r THEN acc ELSE Append(acc, r))

positionChartData(pks) ==
  LET ranges == rangesSeen(pks, <<>>)
  IN  [i \in 1..Len(ranges) |->
         [name  |-> ranges[i],
          value |-> Cardinality({j \in 1..Len(pks) : posRange(pks[j].position) = ranges[i]})]]

\* Variant: the comparator is a.gainExpected - b.gainExpected (ascending).
RECURSIVE insertByGainAscending(_, _)
insertByGainAscending(sorted, x) ==
  IF sorted = <<>> THEN <<x>>
  ELSE IF Head(sorted).gainExpected <= x.gainExpected
       THEN <<Head(sorted)>> \o insertByGainAscending(Tail(sorted), x)
       ELSE <<x>> \o sorted

\* Array.prototype.sort with (a, b) => b.gainExpected - a.gainExpected: a
\* stable sort, so x goes behind every element whose gain is not smaller.
RECURSIVE insertByGain(_, _)
insertByGain(sorted, x) ==
  IF sorted = <<>> THEN <<x>>
  ELSE IF Head(sorted).gainExpected >= x.gainExpected
       THEN <<Head(sorted)>> \o insertByGain(Tail(sorted), x)
       ELSE <<x>> \o sorted

RECURSIVE sortByGain(_, _)
sortByGain(pks, acc) ==
  IF pks = <<>> THEN acc ELSE sortByGain(Tail(pks), insertByGain(acc, Head(pks)))

hasPositiveGain(k) == k.gainExpected > 0

\* .filter(k => k.gainExpected > 0).sort(...).slice(0, 10)
topKeywords(pks) ==
  LET sorted == sortByGain(SelectSeq(pks, hasPositiveGain), <<>>)
  IN  SubSeq(sorted, 1, IF Len(sorted) < TopN THEN Len(sorted) ELSE TopN)

displayKeyword(text) ==
  IF Len(text) > MaxKeywordChars
  THEN SubSeq(text, 1, MaxKeywordChars) \o <<".", ".", ".">>
  ELSE text

\* The map callback of topOpportunities: rounded to whole clicks.
opportunity(k) ==
  [keyword   |-> displayKeyword(k.keyword),
   current   |-> MathRound(k.estimatedCurrentTraffic, ClickUnit),
   potential |-> MathRound(k.expectedTraffic, ClickUnit),
   gain      |-> MathRound(k.gainExpected, ClickUnit)]

topOpportunities(pks) ==
  LET top == topKeywords(pks)
  IN  [i \in 1..Len(top) |-> opportunity(top[i])]

\* The body of the summary memo.
computeSummary(pks) ==
  LET totalCurrentTraffic  == sumCurrent(pks)
      totalExpectedTraffic == sumExpected(pks)
  IN  [totalCurrentTraffic  |-> totalCurrentTraffic,
       totalExpectedTraffic |-> totalExpectedTraffic,
       totalGain            |-> totalExpectedTraffic - totalCurrentTraffic,
       chartData            |-> <<[name    |-> "Current",
                                   traffic |-> MathRound(totalCurrentTraffic, ClickUnit)],
                                  [name    |-> "Expected",
                                   traffic |-> MathRound(totalExpectedTraffic, ClickUnit)]>>,
       positionChartData    |-> positionChartData(pks),
       topOpportunities     |-> topOpportunities(pks)]

(***************************************************************************)
(* exportToExcel                                                           *)
(***************************************************************************)
\* Math.round(x * 100) / 100, in 1e-2 click.
round2(x) == MathRound(x, CentiClick)

exportRow(k) ==
  [Keyword         |-> k.keyword,
   CurrentPosition |-> k.position,
   SearchVolume    |-> k.searchVolume,
   CurrentTraffic  |-> round2(k.estimatedCurrentTraffic),
   TrafficB13      |-> round2(k.trafficB13),
   TrafficB46      |-> round2(k.trafficB46),
   TrafficB710     |-> round2(k.trafficB710),
   TrafficB1120    |-> round2(k.trafficB1120),
   GainB13         |-> round2(k.gainB13),
   GainB46         |-> round2(k.gainB46),
   GainB710        |-> round2(k.gainB710),
   GainB1120       |-> round2(k.gainB1120),
   ExpectedTraffic |-> round2(k.expectedTraffic),
   ExpectedGain    |-> round2(k.gainExpected)]

exportData(pks) == [i \in 1..Len(pks) |-> exportRow(pks[i])]

(***************************************************************************)
(* CohortRulesEditor: the values derived from a rule at render             *)
(***************************************************************************)
createEmptyRule ==
  [positionFrom |-> <<>>, positionTo |-> <<>>, kdFrom |-> <<>>, kdTo |-> <<>>,
   serp |-> <<>>, intent |-> <<>>, country |-> <<>>, device |-> <<>>,
   probA |-> <<"0", ".", "3">>, probB |-> <<"0", ".", "3">>,
   probC |-> <<"0", ".", "3">>, cohortOverride |-> <<>>]

\* parseFloat(text) || 0, in 1e-2.
weightOf(text) ==
  LET n == parseFloat(text) IN IF Truthy(n) THEN Fixed(n, 2) ELSE 0

\* Variant: the leftover is 1 - sum whatever the sum.
leftoverOfUnguarded(sum) == 100 - sum

\* sum <= 1 ? 1 - sum : 0, in 1e-2.
leftoverOf(sum) == IF sum <= 100 THEN 100 - sum ELSE 0

\* sum > 1
errorOf(sum) == sum > 100

\* What the row of a rule shows: a, b, c, their sum, the B1120 cell and the
\* error flag that colours the row.
ruleRow(rule) ==
  LET a   == weightOf(rule.probA)
      b   == weightOf(rule.probB)
      c   == weightOf(rule.probC)
      sum == a + b + c
  IN  [a |-> a, b |-> b, c |-> c, sum |-> sum,
       leftover |-> leftoverOf(sum), error |-> errorOf(sum)]

(***************************************************************************)
(* State                                                                   *)
(***************************************************************************)
VARIABLES
  keywords,           \* useState<KeywordData[]>
  bucketCtr,          \* useState<Record<Bucket, number>>
  probMatrix,         \* useState({p13, p46, p710, pstay})
  upliftCtr,          \* useState<number>
  minSearchVolume,    \* useState<number>
  maxPosition,        \* useState<number>
  isDragActive,       \* useState<boolean>
  inputValues,        \* useState({minSearchVolume, maxPosition, upliftCtr}), texts
  readers,            \* the FileReaders whose read is in flight, in start order
  jsonData,           \* the rows of the file whose load last set keywords
  processedKeywords,  \* the value held by the processedKeywords memo
  summary,            \* the value held by the summary memo
  alerted,            \* the alert() raised by the latest handler, or "none"
  written,            \* the workbook written by the latest handler, or Undefined
  rules               \* CohortRulesEditor: useState<CohortRule[]>

appVars == <<keywords, bucketCtr, probMatrix, upliftCtr, minSearchVolume, maxPosition,
             isDragActive, inputValues, readers, jsonData, processedKeywords, summary,
             alerted, written>>

vars == <<keywords, bucketCtr, probMatrix, upliftCtr, minSearchVolume, maxPosition,
          isDragActive, inputValues, readers, jsonData, processedKeywords, summary,
          alerted, written, rules>>

\* Variant: calculateBucketCTR is missing from the dependency list.
processedDepsNoCtr == <<keywords, minSearchVolume, maxPosition, probMatrix>>

\* The dependency list of the processedKeywords memo; positionToBucket never
\* changes and calculateBucketCTR changes with bucketCtr and upliftCtr.
processedDeps ==
  <<keywords, minSearchVolume, maxPosition, bucketCtr, upliftCtr, probMatrix>>

\* The render that follows a handler: each memo is recomputed when one of its
\* dependencies changed and keeps its value otherwise.
Render ==
  /\ processedKeywords' =
       IF processedDeps' # processedDeps
       THEN computeProcessedKeywords(keywords', minSearchVolume', maxPosition',
                                     bucketCtr', upliftCtr', probMatrix')
       ELSE processedKeywords
  /\ summary' = IF processedKeywords' # processedKeywords
                THEN computeSummary(processedKeywords') ELSE summary

NoOutput == alerted' = "none" /\ written' = Undefined

Init ==
  /\ keywords = <<>>
  /\ bucketCtr = DEFAULT_BUCKET_CTR
  /\ probMatrix = DefaultProbMatrix
  /\ upliftCtr = DefaultUpliftCtr
  /\ minSearchVolume = DefaultMinSearchVolume
  /\ maxPosition = DefaultMaxPosition
  /\ isDragActive = FALSE
  /\ inputValues = DefaultInputValues
  /\ readers = <<>>
  /\ jsonData = <<>>
  /\ processedKeywords = <<>>
  /\ summary = computeSummary(<<>>)
  /\ alerted = "none"
  /\ written = Undefined
  /\ rules = <<createEmptyRule>>

(***************************************************************************)
(* File upload                                                             *)
(***************************************************************************)
\* A file: its rows, or corrupt (XLSX.read throws on its bytes).

\* handleFileUpload(file): a reader is created and its read started; at most
\* limit reads are in flight.
handleFileUpload(file, limit) ==
  /\ Len(readers) < limit
  /\ readers' = Append(readers, file)
  /\ UNCHANGED <<keywords, bucketCtr, probMatrix, upliftCtr, minSearchVolume,
                 maxPosition, isDragActive, inputValues, jsonData, rules>>
  /\ NoOutput
  /\ Render

\* The onChange of the file input: e.target.files?.[0].
onFileInputChange(files, limit) ==
  /\ files # <<>>
  /\ handleFileUpload(files[1], limit)

\* Variant: the catch block also clears the keyword list.
onloadClearing(i) ==
  /\ i \in 1..Len(readers)
  /\ readers' = [j \in 1..(Len(readers) - 1) |-> IF j < i THEN readers[j] ELSE readers[j + 1]]
  /\ IF readers[i].corrupt
     THEN /\ alerted' = "Error parsing file"
          /\ keywords' = <<>>
          /\ jsonData' = <<>>
     ELSE /\ alerted' = "none"
          /\ jsonData' = readers[i].rows
          /\ keywords' = parsedKeywords(readers[i].rows)
  /\ written' = Undefined
  /\ UNCHANGED <<bucketCtr, probMatrix, upliftCtr, minSearchVolume, maxPosition,
                 isDragActive, inputValues, rules>>
  /\ Render

\* reader.onload of the i-th read in flight; the reads complete in any order.
onload(i) ==
  /\ i \in 1..Len(readers)
  /\ readers' = [j \in 1..(Len(readers) - 1) |-> IF j < i THEN readers[j] ELSE readers[j + 1]]
  /\ IF readers[i].corrupt
     THEN /\ alerted' = "Error parsing file"
          /\ UNCHANGED <<keywords, jsonData>>
     ELSE /\ alerted' = "none"
          /\ jsonData' = readers[i].rows
          /\ keywords' = parsedKeywords(readers[i].rows)
  /\ written' = Undefined
  /\ UNCHANGED <<bucketCtr, probMatrix, upliftCtr, minSearchVolume, maxPosition,
                 isDragActive, inputValues, rules>>
  /\ Render

handleDrop(files, limit) ==
  /\ isDragActive' = FALSE
  /\ IF files # <<>>
     THEN /\ Len(readers) < limit
          /\ readers' = Append(readers, files[1])
     ELSE UNCHANGED readers
  /\ UNCHANGED <<keywords, bucketCtr, probMatrix, upliftCtr, minSearchVolume,
                 maxPosition, inputValues, jsonData, rules>>
  /\ NoOutput
  /\ Render

handleDragOver ==
  /\ isDragActive' = TRUE
  /\ UNCHANGED <<keywords, bucketCtr, probMatrix, upliftCtr, minSearchVolume,
                 maxPosition, inputValues, readers, jsonData, rules>>
  /\ NoOutput
  /\ Render

handleDragLeave ==
  /\ isDragActive' = FALSE
  /\ UNCHANGED <<keywords, bucketCtr, probMatrix, upliftCtr, minSearchVolume,
                 maxPosition, inputValues, readers, jsonData, rules>>
  /\ NoOutput
  /\ Render

(***************************************************************************)
(* Filters, parameters, CTR table and probability matrix.  The section     *)
(* that holds these inputs, the reset button and the export button is      *)
(* rendered only while keywords.length > 0.                                *)
(***************************************************************************)
editorsShown == keywords # <<>>

\* Variant: the numValue >= 0 test is missing.
onChangeMinSearchVolumeAnyInt(value) ==
  /\ editorsShown
  /\ inputValues' = [inputValues EXCEPT !.minSearchVolume = value]
  /\ LET numValue == parseInt(value)
     IN  minSearchVolume' = IF ~numValue.nan THEN numValue.mant ELSE minSearchVolume
  /\ UNCHANGED <<keywords, bucketCtr, probMatrix, upliftCtr, maxPosition,
                 isDragActive, readers, jsonData, rules>>
  /\ NoOutput
  /\ Render

onChangeMinSearchVolume(value) ==
  /\ editorsShown
  /\ inputValues' = [inputValues EXCEPT !.minSearchVolume = value]
  /\ LET numValue == parseInt(value)
     IN  minSearchVolume' = IF ~numValue.nan /\ numValue.mant >= 0
                            THEN numValue.mant ELSE minSearchVolume
  /\ UNCHANGED <<keywords, bucketCtr, probMatrix, upliftCtr, maxPosition,
                 isDragActive, readers, jsonData, rules>>
  /\ NoOutput
  /\ Render

\* e.target.value of the blurred input is the text the input shows.
onBlurMinSearchVolume ==
  /\ editorsShown
  /\ LET value == inputValues.minSearchVolume
     IN  IF value = <<>> \/ parseInt(value).nan
         THEN /\ inputValues' = [inputValues EXCEPT !.minSearchVolume = <<"1", "0">>]
              /\ minSearchVolume' = DefaultMinSearchVolume
         ELSE UNCHANGED <<inputValues, minSearchVolume>>
  /\ UNCHANGED <<keywords, bucketCtr, probMatrix, upliftCtr, maxPosition,
                 isDragActive, readers, jsonData, rules>>
  /\ NoOutput
  /\ Render

onChangeMaxPosition(value) ==
  /\ editorsShown
  /\ inputValues' = [inputValues EXCEPT !.maxPosition = value]
  /\ LET numValue == parseInt(value)
     IN  maxPosition' = IF ~numValue.nan /\ numValue.mant >= 1
                        THEN numValue.mant ELSE maxPosition
  /\ UNCHANGED <<keywords, bucketCtr, probMatrix, upliftCtr, minSearchVolume,
                 isDragActive, readers, jsonData, rules>>
  /\ NoOutput
  /\ Render

onBlurMaxPosition ==
  /\ editorsShown
  /\ LET value == inputValues.maxPosition
     IN  IF value = <<>> \/ parseInt(value).nan \/ parseInt(value).mant < 1
         THEN /\ inputValues' = [inputValues EXCEPT !.maxPosition = <<"5", "0">>]
              /\ maxPosition' = DefaultMaxPosition
         ELSE UNCHANGED <<inputValues, maxPosition>>
  /\ UNCHANGED <<keywords, bucketCtr, probMatrix, upliftCtr, minSearchVolume,
                 isDragActive, readers, jsonData, rules>>
  /\ NoOutput
  /\ Render

onChangeUpliftCtr(value) ==
  /\ editorsShown
  /\ inputValues' = [inputValues EXCEPT !.upliftCtr = value]
  /\ LET numValue == parseFloat(value)
     IN  upliftCtr' = IF ~numValue.nan THEN Fixed(numValue, 0) ELSE upliftCtr
  /\ UNCHANGED <<keywords, bucketCtr, probMatrix, minSearchVolume, maxPosition,
                 isDragActive, readers, jsonData, rules>>
  /\ NoOutput
  /\ Render

onBlurUpliftCtr ==
  /\ editorsShown
  /\ LET value == inputValues.upliftCtr
     IN  IF value = <<>> \/ parseFloat(value).nan
         THEN /\ inputValues' = [inputValues EXCEPT !.upliftCtr = <<"0">>]
              /\ upliftCtr' = DefaultUpliftCtr
         ELSE UNCHANGED <<inputValues, upliftCtr>>
  /\ UNCHANGED <<keywords, bucketCtr, probMatrix, minSearchVolume, maxPosition,
                 isDragActive, readers, jsonData, rules>>
  /\ NoOutput
  /\ Render

\* parseFloat(e.target.value) || 0, in the unit of the stored number.
floatOrZero(value, decimals) ==
  LET n == parseFloat(value) IN IF Truthy(n) THEN Fixed(n, decimals) ELSE 0

onChangeBucketCtr(bucket, value) ==
  /\ editorsShown
  /\ bucketCtr' = [bucketCtr EXCEPT ![bucket] = floatOrZero(value, 2)]
  /\ UNCHANGED <<keywords, probMatrix, upliftCtr, minSearchVolume, maxPosition,
                 isDragActive, inputValues, readers, jsonData, rules>>
  /\ NoOutput
  /\ Render

onChangeProbMatrix(key, value) ==
  /\ editorsShown
  /\ probMatrix' = [probMatrix EXCEPT ![key] = floatOrZero(value, 0)]
  /\ UNCHANGED <<keywords, bucketCtr, upliftCtr, minSearchVolume, maxPosition,
                 isDragActive, inputValues, readers, jsonData, rules>>
  /\ NoOutput
  /\ Render

\* The p1120 cell of the probability matrix: (Math.max(0, ...) || 0).
shownP1120 == derivedP1120(probMatrix)

\* Variant: setUpliftCtr(0) is missing.
handleResetKeepsUplift ==
  /\ editorsShown
  /\ bucketCtr' = DEFAULT_BUCKET_CTR
  /\ probMatrix' = DefaultProbMatrix
  /\ minSearchVolume' = DefaultMinSearchVolume
  /\ maxPosition' = DefaultMaxPosition
  /\ inputValues' = DefaultInputValues
  /\ UNCHANGED <<keywords, upliftCtr, isDragActive, readers, jsonData, rules>>
  /\ NoOutput
  /\ Render

handleReset ==
  /\ editorsShown
  /\ bucketCtr' = DEFAULT_BUCKET_CTR
  /\ probMatrix' = DefaultProbMatrix
  /\ upliftCtr' = DefaultUpliftCtr
  /\ minSearchVolume' = DefaultMinSearchVolume
  /\ maxPosition' = DefaultMaxPosition
  /\ inputValues' = DefaultInputValues
  /\ UNCHANGED <<keywords, isDragActive, readers, jsonData, rules>>
  /\ NoOutput
  /\ Render

\* Variant: the length test is missing, so an empty workbook is written.
exportToExcelUnguarded ==
  /\ editorsShown
  /\ alerted' = "none"
  /\ written' = Some(exportData(processedKeywords))
  /\ UNCHANGED <<keywords, bucketCtr, probMatrix, upliftCtr, minSearchVolume,
                 maxPosition, isDragActive, inputValues, readers, jsonData, rules>>
  /\ Render

exportToExcel ==
  /\ editorsShown
  /\ IF Len(processedKeywords) = 0
     THEN /\ alerted' = "No data to export"
          /\ written' = Undefined
     ELSE /\ alerted' = "none"
          /\ written' = Some(exportData(processedKeywords))
  /\ UNCHANGED <<keywords, bucketCtr, probMatrix, upliftCtr, minSearchVolume,
                 maxPosition, isDragActive, inputValues, readers, jsonData, rules>>
  /\ Render

(***************************************************************************)
(* CohortRulesEditor                                                       *)
(***************************************************************************)
updateRule(index, field, value) ==
  /\ index \in 1..Len(rules)
  /\ rules' = [rules EXCEPT ![index] = [@ EXCEPT ![field] = value]]
  /\ UNCHANGED appVars

addRule(limit) ==
  /\ Len(rules) < limit
  /\ rules' = Append(rules, createEmptyRule)
  /\ UNCHANGED appVars

(***************************************************************************)
(* Inputs                                                                  *)
(***************************************************************************)
Row(k, p, v, t) == [Keyword |-> k, Position |-> p, SearchVolume |-> v, Traffic |-> t]

CorruptFile == [corrupt |-> TRUE, rows |-> <<>>]

File(rows) == [corrupt |-> FALSE, rows |-> rows]

\* Every readable file of at most maxRows rows drawn from rowSet.
FilesOver(rowSet, maxRows) ==
  {File(r) : r \in UNION {[1..n -> rowSet] : n \in 0..maxRows}}

\* Spec: two exports and a corrupt file.  The keywords cover the five buckets,
\* a position beyond the default maxPosition, a volume below the default
\* minSearchVolume, and a Traffic cell that is absent, 0 and positive.
FileA ==
  File(<<Row(<<"s", "h", "o", "e", "s">>, <<"5">>, <<"2", "0">>, <<>>),
         Row(<<"h", "a", "t", "s">>, <<"8">>, <<"1", "0">>, <<"0">>),
         Row(<<"b", "o", "o", "t", "s">>, <<"2", "5">>, <<"1", "0">>, <<>>)>>)

FileB ==
  File(<<Row(<<"s", "o", "c", "k", "s">>, <<"1", "5">>, <<"1", "0">>, <<"3">>),
         Row(<<"b", "e", "l", "t", "s">>, <<"6", "0">>, <<"2", "0">>, <<>>),
         Row(<<>>, <<"4">>, <<"2", "0">>, <<>>),
         Row(<<"t", "i", "e", "s">>, <<"2">>, <<"5">>, <<>>)>>)

SpecFiles == {FileA, FileB, CorruptFile}

ProbEdits ==
  {<<"p13", <<"0">>>>, <<"p46", <<"0">>>>, <<"p710", <<"0">>>>,
   <<"pstay", <<"1", "0", "0">>>>}

CtrEdits == {<<"B46", <<>>>>, <<"B1120", <<"1", ".", "5">>>>}

UpliftTexts == {<<"1", "0">>, <<>>}

MinTexts == {<<"5">>, <<>>}

MaxTexts == {<<"2", "0">>}

\* UploadSpec: rows that pass the filter and rows that fail each condition.
UploadRows ==
  {Row(<<"a">>, <<"5">>, <<"2", "0">>, <<>>),
   Row(<<"b">>, <<"1", "5">>, <<"1", "0">>, <<"3">>),
   Row(<<>>, <<"5">>, <<"2", "0">>, <<>>),
   Row(<<"d">>, <<"0">>, <<"2", "0">>, <<>>),
   Row(<<"e">>, <<"7">>, <<"-", "4">>, <<>>),
   Row(<<"f">>, <<"x">>, <<>>, <<"0">>)}

MaxRows == 3

UploadFiles == FilesOver(UploadRows, MaxRows) \cup {CorruptFile}

\* SummarySpec: at the defaults the first keyword gains and the second loses.
SummaryRows ==
  {Row(<<"x">>, <<"1", "5">>, <<"1", "0">>, <<>>),
   Row(<<"y">>, <<"5">>, <<"1", "0">>, <<>>)}

MaxSummaryRows == 11

\* CohortSpec
CohortEdits ==
  {<<"probA", <<"0", ".", "5">>>>, <<"probB", <<"0", ".", "4">>>>,
   <<"probB", <<"0", ".", "5">>>>, <<"probC", <<>>>>,
   <<"probC", <<"-", "0", ".", "2">>>>, <<"cohortOverride", <<"A">>>>}

MaxRules == 2

\* ThresholdSpec: texts typed into the two threshold inputs: empty, not a
\* number, negative, zero, and two numbers of which 30 is above every search
\* volume of FileA.
ThresholdTexts == {<<>>, <<"x">>, <<"-", "3">>, <<"0">>, <<"3", "0">>, <<"7">>}

\* ParamSpec: texts typed into the CTR table and into the probability matrix,
\* among them a CTR above 100, a negative CTR and a negative probability.
RangeCtrEdits ==
  {<<"B21P", <<"1", "2", "0">>>>, <<"B46", <<"-", "2">>>>, <<"B13", <<>>>>,
   <<"B710", <<"3", ".", "1">>>>}

RangeProbEdits ==
  {<<"p13", <<"-", "5">>>>, <<"p46", <<"6", "0">>>>, <<"pstay", <<"5", "0">>>>,
   <<"p710", <<>>>>}

\* RaceSpec: the file chosen first and the file chosen second are drawn from
\* two sets of readable files with no file in common.
FirstRows ==
  {Row(<<"a">>, <<"5">>, <<"2", "0">>, <<>>), Row(<<"b">>, <<"1", "5">>, <<"1", "0">>, <<"3">>)}

SecondRows ==
  {Row(<<"c">>, <<"2">>, <<"2", "0">>, <<>>), Row(<<"d">>, <<"0">>, <<"2", "0">>, <<>>)}

MaxRaceRows == 2

FirstFiles == FilesOver(FirstRows, MaxRaceRows) \ {File(<<>>)}

SecondFiles == FilesOver(SecondRows, MaxRaceRows) \ {File(<<>>)}

(***************************************************************************)
(* Specifications                                                          *)
(***************************************************************************)
\* The analyzer: uploads through the file input, one read at a time, every
\* editor, reset and export.
Next ==
  \/ \E f \in SpecFiles : onFileInputChange(<<f>>, 1)
  \/ onload(1)
  \/ \E v \in MinTexts : onChangeMinSearchVolume(v)
  \/ onBlurMinSearchVolume
  \/ \E v \in MaxTexts : onChangeMaxPosition(v)
  \/ onBlurMaxPosition
  \/ \E v \in UpliftTexts : onChangeUpliftCtr(v)
  \/ onBlurUpliftCtr
  \/ \E e \in CtrEdits : onChangeBucketCtr(e[1], e[2])
  \/ \E e \in ProbEdits : onChangeProbMatrix(e[1], e[2])
  \/ handleReset
  \/ exportToExcel

Spec == Init /\ [][Next]_vars

\* The state in which the read of the first file chosen, one of files, is in
\* flight.
InitReading(files) ==
  /\ keywords = <<>>
  /\ bucketCtr = DEFAULT_BUCKET_CTR
  /\ probMatrix = DefaultProbMatrix
  /\ upliftCtr = DefaultUpliftCtr
  /\ minSearchVolume = DefaultMinSearchVolume
  /\ maxPosition = DefaultMaxPosition
  /\ isDragActive = FALSE
  /\ inputValues = DefaultInputValues
  /\ readers \in {<<f>> : f \in files}
  /\ jsonData = <<>>
  /\ processedKeywords = <<>>
  /\ summary = computeSummary(<<>>)
  /\ alerted = "none"
  /\ written = Undefined
  /\ rules = <<createEmptyRule>>

\* Uploads alone, one read at a time.  The first file chosen is any file over
\* UploadRows or the corrupt file; the files chosen afterwards, through the
\* file input or the drop zone, are those of SpecFiles.
InitUpload == InitReading(UploadFiles)

NextUpload ==
  \/ \E f \in SpecFiles : onFileInputChange(<<f>>, 1)
  \/ \E f \in SpecFiles : handleDrop(<<f>>, 1)
  \/ handleDrop(<<>>, 1)
  \/ onload(1)
  \/ handleDragOver
  \/ handleDragLeave

UploadSpec == InitUpload /\ [][NextUpload]_vars

\* The summary of long keyword lists: the file chosen is any file over
\* SummaryRows; once it is loaded, p13 is edited and the parameters are reset.
InitSummary == InitReading(FilesOver(SummaryRows, MaxSummaryRows))

NextSummary ==
  \/ onload(1)
  \/ onChangeProbMatrix("p13", <<"2", "0">>)
  \/ handleReset

SummarySpec == InitSummary /\ [][NextSummary]_vars

NextCohort ==
  \/ \E i \in 1..MaxRules, e \in CohortEdits : updateRule(i, e[1], e[2])
  \/ addRule(MaxRules)

CohortSpec == Init /\ [][NextCohort]_vars

\* The two threshold inputs, reset and export over the keywords of FileA.
InitThreshold == InitReading({FileA})

NextThreshold ==
  \/ onload(1)
  \/ \E v \in ThresholdTexts : onChangeMinSearchVolume(v)
  \/ onBlurMinSearchVolume
  \/ \E v \in ThresholdTexts : onChangeMaxPosition(v)
  \/ onBlurMaxPosition
  \/ handleReset
  \/ exportToExcel

ThresholdSpec == InitThreshold /\ [][NextThreshold]_vars

\* The CTR table, the probability matrix and reset over the keywords of FileA.
InitParam == InitReading({FileA})

NextParam ==
  \/ onload(1)
  \/ \E e \in RangeCtrEdits : onChangeBucketCtr(e[1], e[2])
  \/ \E e \in RangeProbEdits : onChangeProbMatrix(e[1], e[2])
  \/ handleReset

ParamSpec == InitParam /\ [][NextParam]_vars

\* Two reads in flight: handleFileUpload was called for a file of FirstFiles
\* and then, before that read completed, for a file of SecondFiles; the two
\* reads complete in either order.
InitRace ==
  /\ keywords = <<>>
  /\ bucketCtr = DEFAULT_BUCKET_CTR
  /\ probMatrix = DefaultProbMatrix
  /\ upliftCtr = DefaultUpliftCtr
  /\ minSearchVolume = DefaultMinSearchVolume
  /\ maxPosition = DefaultMaxPosition
  /\ isDragActive = FALSE
  /\ inputValues = DefaultInputValues
  /\ readers \in {<<f1, f2>> : f1 \in FirstFiles, f2 \in SecondFiles}
  /\ jsonData = <<>>
  /\ processedKeywords = <<>>
  /\ summary = computeSummary(<<>>)
  /\ alerted = "none"
  /\ written = Undefined
  /\ rules = <<createEmptyRule>>

NextRace ==
  \/ onload(1)
  \/ onload(2)

RaceSpec == InitRace /\ [][NextRace]_vars

(***************************************************************************)
(* Properties                                                              *)
(***************************************************************************)
MaxCheckedPosition == 60

\* The range of positions the specification gives each bucket.
InRange(b, p) ==
  CASE b = "B13"   -> 1 <= p /\ p <= 3
    [] b = "B46"   -> 4 <= p /\ p <= 6
    [] b = "B710"  -> 7 <= p /\ p <= 10
    [] b = "B1120" -> 11 <= p /\ p <= 20
    [] b = "B21P"  -> 21 <= p

RangeBucket(p) == CHOOSE b \in Bucket : InRange(b, p)

\* The CTR of bucket b with the uplift, from the state, in 1e-4 percent.
StateCtr(b) == bucketCtr[b] * (100 + upliftCtr)

\* C1: positionToBucket maps every position p >= 1 to exactly one bucket:
\* 1..3 to B13, 4..6 to B46, 7..10 to B710, 11..20 to B1120 and every p >= 21
\* to B21P; the five ranges have no gap and no overlap.  Checked for every
\* position up to MaxCheckedPosition and for the position of every keyword
\* of the session.
C1_BucketPartition ==
  /\ \A p \in 1..MaxCheckedPosition :
       /\ Cardinality({b \in Bucket : InRange(b, p)}) = 1
       /\ positionToBucket(p) \in Bucket
       /\ InRange(positionToBucket(p), p)
  /\ \A i \in 1..Len(keywords) :
       InRange(positionToBucket(keywords[i].position), keywords[i].position)

\* C1 witness: keywords of the B46, B710 and B21P ranges are loaded.
C1_Witness ==
  /\ \E i \in 1..Len(keywords) : keywords[i].position >= 21
  /\ \E i \in 1..Len(keywords) : keywords[i].position \in 4..6
  /\ \E i \in 1..Len(keywords) : keywords[i].position \in 7..10

\* The rows of the loaded file that became keywords, and the observed traffic
\* a row carries: its Traffic cell holds a number >= 0.
RowHasObserved(row) ==
  /\ row.Traffic # <<>>
  /\ ~parseFloat(row.Traffic).nan
  /\ parseFloat(row.Traffic).mant >= 0

RowObserved(row) == Fixed(parseFloat(row.Traffic), 0)

\* C2 (as claimed): every processed keyword whose row carries an observed
\* traffic >= 0, 0 included, has estimatedCurrentTraffic equal to that value.
\* The keywords of a file of Spec are distinct, so a row is matched by its
\* keyword text.
C2_ObservedTrafficWins ==
  \A i \in 1..Len(jsonData) : \A j \in 1..Len(processedKeywords) :
    (RowHasObserved(jsonData[i]) /\ processedKeywords[j].keyword = jsonData[i].Keyword)
      => processedKeywords[j].estimatedCurrentTraffic
           = RowObserved(jsonData[i]) * ClickUnit

\* C3: a processed keyword without observed traffic has
\* estimatedCurrentTraffic = searchVolume x bucketCtr[bucket of its position]
\* x (1 + upliftCtr/100) / 100, exactly; position 5 with volume 1000 and the
\* default table gives 63.0 at uplift 0 and 69.3 at uplift 10.
C3_ModelledEstimate ==
  /\ \A j \in 1..Len(processedKeywords) :
       LET k == processedKeywords[j]
       IN  k.currentTraffic = Undefined
             => k.estimatedCurrentTraffic
                  = 100 * k.searchVolume * bucketCtr[RangeBucket(k.position)]
                        * (100 + upliftCtr)
  /\ LET shoes == [keyword |-> <<"s", "h", "o", "e", "s">>, position |-> 5,
                   searchVolume |-> 1000, currentTraffic |-> Undefined]
     IN  /\ estimatedCurrentTraffic(shoes,
               calculateBucketCTR(positionToBucket(5), DEFAULT_BUCKET_CTR, 0))
               = 63 * Pow10(6)
         /\ estimatedCurrentTraffic(shoes,
               calculateBucketCTR(positionToBucket(5), DEFAULT_BUCKET_CTR, 10))
               = 693 * Pow10(5)

\* C3 witness: a keyword without observed traffic is processed under a
\* non-zero uplift.
C3_Witness ==
  /\ upliftCtr = 10
  /\ \E j \in 1..Len(processedKeywords) :
       /\ processedKeywords[j].currentTraffic = Undefined
       /\ processedKeywords[j].estimatedCurrentTraffic > 0

\* The blended CTR the specification gives a keyword at position p, in 1e-6
\* percent.
BlendedCtr(p) ==
  LET sum   == probMatrix.p13 + probMatrix.p46 + probMatrix.p710 + probMatrix.pstay
      p1120 == IF 100 - sum > 0 THEN 100 - sum ELSE 0
  IN    probMatrix.p13 * StateCtr("B13") + probMatrix.p46 * StateCtr("B46")
      + probMatrix.p710 * StateCtr("B710") + p1120 * StateCtr("B1120")
      + probMatrix.pstay * StateCtr(RangeBucket(p))

\* C4: every processed keyword has expectedTraffic = searchVolume x
\* expectedCtr / 100, where expectedCtr blends the uplifted CTRs of B13, B46,
\* B710 and B1120 with the weights p13, p46, p710, p1120 and the uplifted CTR
\* of the keyword's own bucket (B21P beyond position 20) with pstay; and
\* gainExpected = expectedTraffic - estimatedCurrentTraffic.
C4_ExpectedTraffic ==
  \A j \in 1..Len(processedKeywords) :
    LET k == processedKeywords[j]
    IN  /\ k.expectedTraffic = k.searchVolume * BlendedCtr(k.position)
        /\ k.gainExpected = k.expectedTraffic - k.estimatedCurrentTraffic

\* C4 witness: keywords of different buckets, one beyond position 20, are
\* processed with a stay mass and get different expected traffic at the same
\* search volume.
C4_Witness ==
  /\ probMatrix.pstay > 0
  /\ \E i, j \in 1..Len(processedKeywords) :
       /\ processedKeywords[i].position > 20
       /\ processedKeywords[j].position <= 20
       /\ processedKeywords[i].searchVolume = processedKeywords[j].searchVolume
       /\ processedKeywords[i].expectedTraffic # processedKeywords[j].expectedTraffic

\* C5: the derived mass p1120, as used by the projection and as shown in the
\* probability matrix, is 100 - p13 - p46 - p710 - pstay when that is
\* positive and 0 otherwise, so it is never negative; at the defaults it is 30.
C5_DerivedMass ==
  LET sum == probMatrix.p13 + probMatrix.p46 + probMatrix.p710 + probMatrix.pstay
  IN  /\ derivedP1120(probMatrix) >= 0
      /\ sum <= 100 => derivedP1120(probMatrix) = 100 - sum
      /\ sum > 100 => derivedP1120(probMatrix) = 0
      /\ shownP1120 = derivedP1120(probMatrix)
      /\ probMatrix = [p13 |-> 5, p46 |-> 15, p710 |-> 30, pstay |-> 20]
           => derivedP1120(probMatrix) = 30

\* C5 witness: the four stored masses exceed 100 and keywords are processed.
C5_Witness ==
  /\ probMatrix.p13 + probMatrix.p46 + probMatrix.p710 + probMatrix.pstay > 100
  /\ derivedP1120(probMatrix) = 0
  /\ processedKeywords # <<>>

\* The fields of a ProcessedKeyword.
ProcessedFields ==
  {"keyword", "position", "searchVolume", "currentTraffic", "estimatedCurrentTraffic",
   "trafficB13", "trafficB46", "trafficB710", "trafficB1120",
   "gainB13", "gainB46", "gainB710", "gainB1120", "expectedTraffic", "gainExpected"}

\* C6: for every processed keyword and each target bucket T of B13, B46, B710,
\* B1120 (there is no B21P target), traffic_T = searchVolume x ctr(T) / 100 and
\* gain_T = traffic_T - estimatedCurrentTraffic, signed: it is negative
\* whenever the current estimate exceeds traffic_T.
C6_TargetBuckets ==
  \A j \in 1..Len(processedKeywords) :
    LET k == processedKeywords[j]
        T(b) == 100 * k.searchVolume * StateCtr(b)
    IN  /\ DOMAIN k = ProcessedFields
        /\ k.trafficB13 = T("B13") /\ k.gainB13 = T("B13") - k.estimatedCurrentTraffic
        /\ k.trafficB46 = T("B46") /\ k.gainB46 = T("B46") - k.estimatedCurrentTraffic
        /\ k.trafficB710 = T("B710") /\ k.gainB710 = T("B710") - k.estimatedCurrentTraffic
        /\ k.trafficB1120 = T("B1120")
        /\ k.gainB1120 = T("B1120") - k.estimatedCurrentTraffic
        /\ k.estimatedCurrentTraffic > k.trafficB13 => k.gainB13 < 0
        /\ k.estimatedCurrentTraffic > k.trafficB46 => k.gainB46 < 0
        /\ k.estimatedCurrentTraffic > k.trafficB710 => k.gainB710 < 0
        /\ k.estimatedCurrentTraffic > k.trafficB1120 => k.gainB1120 < 0

\* C6 witness: a processed keyword whose estimate exceeds the traffic of B1120
\* and whose gainB1120 is negative while its gainB13 is positive.
C6_Witness ==
  \E j \in 1..Len(processedKeywords) :
    /\ processedKeywords[j].estimatedCurrentTraffic > processedKeywords[j].trafficB1120
    /\ processedKeywords[j].gainB1120 < 0
    /\ processedKeywords[j].gainB13 > 0

\* The three conditions of the validity filter on a row: a non-empty keyword
\* text, an integer position > 0 and an integer search volume > 0.
RowInt(cell) == IF parseInt(cell).nan THEN 0 ELSE parseInt(cell).mant

RowPasses(row) ==
  row.Keyword # <<>> /\ RowInt(row.Position) > 0 /\ RowInt(row.SearchVolume) > 0

PassingRows(rows) == SelectSeq(rows, RowPasses)

\* C7 (state part): every keyword of the session has a non-empty text, a
\* position > 0 and a search volume > 0, and the keywords are the passing rows
\* of the loaded file, all of them, in the order of the file.
C7_KeywordsAreThePassingRows ==
  /\ \A i \in 1..Len(keywords) :
       /\ keywords[i].keyword # <<>>
       /\ keywords[i].position > 0
       /\ keywords[i].searchVolume > 0
  /\ LET kept == PassingRows(jsonData)
     IN  /\ Len(keywords) = Len(kept)
         /\ \A i \in 1..Len(kept) :
              /\ keywords[i].keyword = kept[i].Keyword
              /\ keywords[i].position = RowInt(kept[i].Position)
              /\ keywords[i].searchVolume = RowInt(kept[i].SearchVolume)

\* C7 (step part): the load of a readable file raises no alert, whatever rows
\* it drops, and sets the keywords to its passing rows.
C7_LoadStep ==
  (Len(readers') < Len(readers) /\ ~readers[1].corrupt)
    => /\ alerted' = "none"
       /\ Len(keywords') = Len(PassingRows(readers[1].rows))
       /\ jsonData' = readers[1].rows

\* C7: after any sequence of uploads the keywords are exactly the rows that
\* pass the three conditions, in input order; failing rows are dropped
\* without an alert.
C7_ValidityFilter == []C7_KeywordsAreThePassingRows /\ [][C7_LoadStep]_vars

\* C7 witness: a file with a failing row between two passing rows was loaded
\* without an alert and both passing rows are kept in order.
C7_Witness ==
  /\ Len(jsonData) = 3
  /\ RowPasses(jsonData[1]) /\ ~RowPasses(jsonData[2]) /\ RowPasses(jsonData[3])
  /\ jsonData[1] # jsonData[3]
  /\ Len(keywords) = 2
  /\ keywords[1].keyword = jsonData[1].Keyword
  /\ keywords[2].keyword = jsonData[3].Keyword
  /\ alerted = "none"

\* The processed keywords the top-opportunity list is taken from.
TopSource == topKeywords(processedKeywords)

C8_Common ==
  /\ Len(summary.topOpportunities) <= 10
  /\ Len(summary.topOpportunities) = Len(TopSource)
  /\ \A i \in 1..Len(TopSource) :
       /\ \E j \in 1..Len(processedKeywords) : processedKeywords[j] = TopSource[i]
       /\ TopSource[i].gainExpected > 0
       /\ summary.topOpportunities[i].gain = MathRound(TopSource[i].gainExpected, ClickUnit)

\* C8 (as claimed): the top-opportunity list has at most 10 entries, holds no
\* keyword with a non-positive expected gain and is strictly descending by
\* gain.
C8_StrictlyDescending ==
  /\ C8_Common
  /\ \A i, j \in 1..Len(TopSource) :
       i < j => TopSource[i].gainExpected > TopSource[j].gainExpected

\* C8 (amended): the top-opportunity list has at most 10 entries, holds no
\* keyword with a non-positive expected gain and is sorted by gain in
\* non-increasing order: keywords of equal gain are all listed.
C8_TopOpportunities ==
  /\ C8_Common
  /\ \A i, j \in 1..Len(TopSource) :
       i < j => /\ TopSource[i].gainExpected >= TopSource[j].gainExpected
                /\ summary.topOpportunities[i].gain >= summary.topOpportunities[j].gain

\* C8 witness: more than 10 processed keywords gain, of two different gains,
\* some keyword loses, and the list holds 10 entries.
C8_Witness ==
  /\ Cardinality({j \in 1..Len(processedKeywords) : processedKeywords[j].gainExpected > 0}) > 10
  /\ Len(summary.topOpportunities) = 10
  /\ TopSource[1].gainExpected > TopSource[10].gainExpected

\* The texts entered for a weight of a cohort rule, and its initial text.
EnteredTexts(field) ==
  {createEmptyRule[field]} \cup {e[2] : e \in {x \in CohortEdits : x[1] = field}}

\* C9: after any sequence of edits, every cohort rule is flagged invalid
\* exactly when a + b + c > 1, its residual is 1 - (a + b + c) when that is
\* >= 0 and 0 otherwise, so 0 and never negative when the rule is invalid, and
\* its weights stay as entered.
C9_CohortRule ==
  \A i \in 1..Len(rules) :
    LET r == ruleRow(rules[i])
    IN  /\ r.error <=> (r.a + r.b + r.c > 100)
        /\ r.leftover >= 0
        /\ r.a + r.b + r.c <= 100 => r.leftover = 100 - (r.a + r.b + r.c)
        /\ r.error => r.leftover = 0
        /\ rules[i].probA \in EnteredTexts("probA")
        /\ rules[i].probB \in EnteredTexts("probB")
        /\ rules[i].probC \in EnteredTexts("probC")

\* C9 witness: a rule with the weights 0.5, 0.4 and 0.3 is flagged invalid,
\* shows the residual 0 and keeps the three weights.
C9_Witness ==
  \E i \in 1..Len(rules) :
    /\ rules[i].probA = <<"0", ".", "5">>
    /\ rules[i].probB = <<"0", ".", "4">>
    /\ rules[i].probC = <<"0", ".", "3">>
    /\ ruleRow(rules[i]).sum = 120
    /\ ruleRow(rules[i]).error
    /\ ruleRow(rules[i]).leftover = 0

\* The session keywords within the thresholds, in order.
Retained(k) == k.searchVolume >= minSearchVolume /\ k.position <= maxPosition

RetainedKeywords == SelectSeq(keywords, Retained)

\* C10: the processed keywords are exactly the session keywords with
\* searchVolume >= minSearchVolume and position <= maxPosition, one per
\* record and in the same order; the totals and the exported rows cover these
\* keywords and no other.
C10_ThresholdFilter ==
  /\ Len(processedKeywords) = Len(RetainedKeywords)
  /\ \A i \in 1..Len(RetainedKeywords) :
       /\ processedKeywords[i].keyword = RetainedKeywords[i].keyword
       /\ processedKeywords[i].position = RetainedKeywords[i].position
       /\ processedKeywords[i].searchVolume = RetainedKeywords[i].searchVolume
       /\ processedKeywords[i].currentTraffic = RetainedKeywords[i].currentTraffic
  /\ summary.totalCurrentTraffic = sumCurrent(processedKeywords)
  /\ summary.totalExpectedTraffic = sumExpected(processedKeywords)
  /\ written # Undefined =>
       /\ Len(written[1]) = Len(RetainedKeywords)
       /\ \A i \in 1..Len(RetainedKeywords) :
            written[1][i].Keyword = RetainedKeywords[i].keyword

\* C10 witness: a keyword exactly at the volume threshold is retained, one
\* below it and one beyond maxPosition are not, and the result was exported.
C10_Witness ==
  /\ \E i \in 1..Len(keywords) : keywords[i].searchVolume < minSearchVolume
  /\ \E i \in 1..Len(keywords) : keywords[i].position > maxPosition
  /\ \E i \in 1..Len(processedKeywords) :
       processedKeywords[i].searchVolume = minSearchVolume
  /\ Len(processedKeywords) < Len(keywords)
  /\ written # Undefined

\* The session state a handler may change: the keyword list, the CTR table,
\* the uplift, the thresholds, the probability matrix, the input texts and
\* the two memoised results.
SessionState ==
  <<keywords, jsonData, bucketCtr, probMatrix, upliftCtr, minSearchVolume, maxPosition,
    inputValues, processedKeywords, summary>>

\* C11 (step): the load of a file whose parsing throws raises the one parse
\* alert and changes nothing of the session state.
C11_FailedLoadStep ==
  (Len(readers') < Len(readers) /\ readers[1].corrupt)
    => /\ alerted' = "Error parsing file"
       /\ written' = Undefined
       /\ UNCHANGED SessionState

\* C11: if the parsing of an uploaded file fails, one failure is reported and
\* the keyword list, the CTR table, the uplift, the thresholds and the
\* probability matrix are what they were before the upload.
C11_ParseFailure == [][C11_FailedLoadStep]_vars

\* C11 witness: the parse alert is up while keywords loaded earlier and an
\* edited uplift and probability matrix are in place.
C11_Witness ==
  /\ alerted = "Error parsing file"
  /\ keywords # <<>>
  /\ processedKeywords # <<>>
  /\ upliftCtr # 0
  /\ probMatrix # [p13 |-> 5, p46 |-> 15, p710 |-> 30, pstay |-> 20]

\* C12 (state): the export alert is up only over an empty processed
\* collection and with no workbook; a workbook written holds one row per
\* processed keyword, in order.
C12_ExportOutput ==
  /\ alerted = "No data to export" => (processedKeywords = <<>> /\ written = Undefined)
  /\ written # Undefined =>
       /\ alerted = "none"
       /\ processedKeywords # <<>>
       /\ Len(written[1]) = Len(processedKeywords)
       /\ \A i \in 1..Len(processedKeywords) :
            /\ written[1][i].Keyword = processedKeywords[i].keyword
            /\ written[1][i].CurrentPosition = processedKeywords[i].position
            /\ written[1][i].SearchVolume = processedKeywords[i].searchVolume

\* C12 (step): an export changes no session state; over an empty collection
\* it raises the alert and writes nothing, over a non-empty one it raises no
\* alert and writes a workbook.
C12_ExportStep ==
  exportToExcel
    => /\ UNCHANGED SessionState
       /\ processedKeywords = <<>> =>
            (alerted' = "No data to export" /\ written' = Undefined)
       /\ processedKeywords # <<>> =>
            (alerted' = "none" /\ written' # Undefined
               /\ Len(written'[1]) = Len(processedKeywords))

\* C12: an export requested over an empty processed collection reports a
\* failure and is a no-op, no workbook is written and no session state
\* changes; over a non-empty collection exactly one row per processed
\* keyword is exported.
C12_Export == []C12_ExportOutput /\ [][C12_ExportStep]_vars

\* C12 witness: keywords are loaded, the thresholds retain none of them, and
\* the export just requested raised the alert and wrote nothing.
C12_Witness ==
  /\ keywords # <<>>
  /\ processedKeywords = <<>>
  /\ alerted = "No data to export"
  /\ written = Undefined

\* The sum of a numeric field over a processed collection.
RECURSIVE SumField(_, _)
SumField(pks, field) ==
  IF pks = <<>> THEN 0 ELSE Head(pks)[field] + SumField(Tail(pks), field)

\* C13: totalCurrentTraffic is the sum of estimatedCurrentTraffic,
\* totalExpectedTraffic the sum of expectedTraffic, and totalGain =
\* totalExpectedTraffic - totalCurrentTraffic, which is the sum of every
\* keyword's gainExpected, the negative ones included.
C13_Totals ==
  /\ summary.totalCurrentTraffic = SumField(processedKeywords, "estimatedCurrentTraffic")
  /\ summary.totalExpectedTraffic = SumField(processedKeywords, "expectedTraffic")
  /\ summary.totalGain = summary.totalExpectedTraffic - summary.totalCurrentTraffic
  /\ summary.totalGain = SumField(processedKeywords, "gainExpected")

\* C13 witness: a keyword that gains and a keyword that loses are processed
\* and the total gain is negative.
C13_Witness ==
  /\ \E j \in 1..Len(processedKeywords) : processedKeywords[j].gainExpected > 0
  /\ \E j \in 1..Len(processedKeywords) : processedKeywords[j].gainExpected < 0
  /\ summary.totalGain < 0

\* C14: in every state the processed collection is the full projection of
\* the current keywords under the current thresholds, CTR table, uplift and
\* probability matrix, and the summary is the summary of that collection;
\* neither is a result kept from an earlier configuration.
C14_NeverStale ==
  /\ processedKeywords
       = computeProcessedKeywords(keywords, minSearchVolume, maxPosition,
                                  bucketCtr, upliftCtr, probMatrix)
  /\ summary = computeSummary(processedKeywords)

\* C14 witness: keywords are processed under thresholds, a CTR table, an
\* uplift and a probability matrix that were all edited.
C14_Witness ==
  /\ processedKeywords # <<>>
  /\ minSearchVolume # 10
  /\ maxPosition # 50
  /\ upliftCtr # 0
  /\ bucketCtr # [B13 |-> 1840, B46 |-> 630, B710 |-> 285, B1120 |-> 102, B21P |-> 10]
  /\ probMatrix # [p13 |-> 5, p46 |-> 15, p710 |-> 30, pstay |-> 20]

\* C15 (as claimed): the CTR table maps each of the five buckets to a number
\* within [0, 100] percent (0..10000 in 1e-2 percent).
C15_CtrTableInRange ==
  /\ DOMAIN bucketCtr = Bucket
  /\ \A b \in Bucket : bucketCtr[b] >= 0 /\ bucketCtr[b] <= 10000

\* C16 (as claimed): none of the five masses of the blend, the stored p13,
\* p46, p710, pstay and the derived p1120, is negative.
C16_MassesNonNegative ==
  /\ probMatrix.p13 >= 0
  /\ probMatrix.p46 >= 0
  /\ probMatrix.p710 >= 0
  /\ probMatrix.pstay >= 0
  /\ derivedP1120(probMatrix) >= 0

\* The integer a threshold text denotes, if any.
DenotesInt(text) == ~parseInt(text).nan

IntOf(text) == parseInt(text).mant

C17_Effective ==
  /\ minSearchVolume \in Nat
  /\ maxPosition \in Nat /\ maxPosition >= 1

C17_ChangeStep ==
  \A v \in ThresholdTexts :
    /\ onChangeMinSearchVolume(v) =>
         minSearchVolume' = IF DenotesInt(v) /\ IntOf(v) >= 0 THEN IntOf(v)
                            ELSE minSearchVolume
    /\ onChangeMaxPosition(v) =>
         maxPosition' = IF DenotesInt(v) /\ IntOf(v) >= 1 THEN IntOf(v)
                        ELSE maxPosition

C17_BlurStep ==
  /\ (onBlurMinSearchVolume /\ ~DenotesInt(inputValues.minSearchVolume))
       => minSearchVolume' = 10
  /\ (onBlurMaxPosition /\ ~DenotesInt(inputValues.maxPosition))
       => maxPosition' = 50

\* C17: after any sequence of change and blur events on the two threshold
\* inputs and resets, minSearchVolume is an integer >= 0 and maxPosition an
\* integer >= 1; a change whose text does not denote such a value leaves the
\* effective value as it was, and a blur on an empty or unparsable text sets
\* it to the default, 10 and 50.
C17_Thresholds == []C17_Effective /\ [][C17_ChangeStep /\ C17_BlurStep]_vars

\* C17 witness: both inputs show a text that is not a valid threshold, a
\* negative number and zero, while the effective thresholds are the values
\* typed before, 7 and 30.
C17_Witness ==
  /\ inputValues.minSearchVolume = <<"-", "3">>
  /\ minSearchVolume = 7
  /\ inputValues.maxPosition = <<"0">>
  /\ maxPosition = 30

\* C18 (as claimed): once the reads of the file chosen first and of the file
\* chosen second have both completed, the keywords are the parsed content of
\* the file chosen second.
C18_LastSelectedWins ==
  readers = <<>> =>
    \E f \in SecondFiles : jsonData = f.rows /\ keywords = parsedKeywords(f.rows)

\* All the probability mass is on staying.
AllStay == probMatrix = [p13 |-> 0, p46 |-> 0, p710 |-> 0, pstay |-> 100]

\* C19 (as claimed): when all mass is on staying, every processed keyword
\* has expectedTraffic = estimatedCurrentTraffic and gainExpected = 0, the
\* total gain is 0 and the top-opportunity list is empty.
C19_AllStayNoGain ==
  AllStay =>
    /\ \A j \in 1..Len(processedKeywords) :
         /\ processedKeywords[j].expectedTraffic
              = processedKeywords[j].estimatedCurrentTraffic
         /\ processedKeywords[j].gainExpected = 0
    /\ summary.totalGain = 0
    /\ summary.topOpportunities = <<>>

\* C19 (amended): when all mass is on staying, the derived p1120 is 0 and
\* every processed keyword has expectedTraffic equal to its modelled current
\* traffic, searchVolume x ctr(own bucket) / 100; a keyword without observed
\* traffic therefore has expectedTraffic = estimatedCurrentTraffic and
\* gainExpected = 0, and a keyword with observed traffic has gainExpected =
\* modelled - observed; when no processed keyword has observed traffic the
\* total gain is 0 and the top-opportunity list is empty.
C19_AllStayModelled ==
  AllStay =>
    /\ derivedP1120(probMatrix) = 0
    /\ \A j \in 1..Len(processedKeywords) :
         LET k        == processedKeywords[j]
             modelled == 100 * k.searchVolume * StateCtr(RangeBucket(k.position))
         IN  /\ k.expectedTraffic = modelled
             /\ k.currentTraffic = Undefined =>
                  (k.expectedTraffic = k.estimatedCurrentTraffic /\ k.gainExpected = 0)
             /\ k.currentTraffic # Undefined =>
                  k.gainExpected = modelled - k.currentTraffic[1] * ClickUnit
    /\ (\A j \in 1..Len(processedKeywords) : processedKeywords[j].currentTraffic = Undefined)
         => (summary.totalGain = 0 /\ summary.topOpportunities = <<>>)

\* C19 witness: all mass is on staying, keywords of several buckets without
\* observed traffic are processed under an uplift, and the total gain is 0.
C19_Witness ==
  /\ AllStay
  /\ upliftCtr # 0
  /\ Len(processedKeywords) >= 2
  /\ \A j \in 1..Len(processedKeywords) :
       /\ processedKeywords[j].currentTraffic = Undefined
       /\ processedKeywords[j].estimatedCurrentTraffic > 0
  /\ summary.totalGain = 0

\* The defaults handleReset is said to restore.
C20_Defaults ==
  /\ bucketCtr = [B13 |-> 1840, B46 |-> 630, B710 |-> 285, B1120 |-> 102, B21P |-> 10]
  /\ probMatrix = [p13 |-> 5, p46 |-> 15, p710 |-> 30, pstay |-> 20]
  /\ upliftCtr = 0
  /\ minSearchVolume = 10
  /\ maxPosition = 50
  /\ inputValues = [minSearchVolume |-> <<"1", "0">>, maxPosition |-> <<"5", "0">>,
                    upliftCtr |-> <<"0">>]

\* The state a reset leaves: the defaults and no output.
C20_ResetState == C20_Defaults /\ alerted = "none" /\ written = Undefined

\* C20 (step): a reset restores the defaults and keeps the loaded keywords,
\* and a reset applied to the state a reset leaves changes nothing.
C20_ResetStep ==
  handleReset
    => /\ C20_ResetState'
       /\ keywords' = keywords
       /\ jsonData' = jsonData
       /\ C20_ResetState => UNCHANGED vars

\* C20: from any reachable state handleReset sets the CTR table, the
\* probability matrix (5, 15, 30, 20), the uplift (0), minSearchVolume (10),
\* maxPosition (50) and the three input texts to their defaults and leaves
\* the loaded keywords unchanged; applied twice it gives the same state as
\* applied once.
C20_Reset == [][C20_ResetStep]_vars

\* C20 witness: handleReset can act on loaded keywords while the CTR table,
\* the probability matrix, the uplift, both thresholds and the input texts
\* all differ from their defaults and a workbook was just written.
C20_Witness ==
  /\ editorsShown
  /\ bucketCtr # [B13 |-> 1840, B46 |-> 630, B710 |-> 285, B1120 |-> 102, B21P |-> 10]
  /\ probMatrix # [p13 |-> 5, p46 |-> 15, p710 |-> 30, pstay |-> 20]
  /\ upliftCtr # 0
  /\ minSearchVolume # 10
  /\ maxPosition # 50
  /\ inputValues.upliftCtr # <<"0">>
  /\ written # Undefined

====
